---- MODULE Spec2Model ----
(***************************************************************************)
(* Model of src/services/gemini.ts: the reply parser of                    *)
(* generateSingleFrame and the batch loop of generateAnimationFrames.      *)
(* Strings are sequences of one-character strings.                         *)
(***************************************************************************)
EXTENDS Integers, Sequences, FiniteSets, TLC

\* ---------------------------------------------------------------- bounds
MaxCount == 4
MaxPieces == 3
MaxChecks == 3
MaxPrompts == 2

\* ------------------------------------------------------ character helpers
SP == " "
LF == "LF"

Rep(c, n) == [x \in 1..n |-> c]

MinOf(S) == CHOOSE x \in S : \A y \in S : x <= y

Min(a, b) == IF a < b THEN a ELSE b

\* \s of the regular expressions, restricted to the characters in use
IsWhitespace(c) == c \in {SP, LF}

\* "." of the regular expressions: any character but a line terminator
IsDot(c) == c # LF

\* String.prototype.slice(from, to) with 0-based, end-exclusive indices
Slice(s, from, to) == SubSeq(s, from + 1, Min(to, Len(s)))

\* String.prototype.includes for a single character
Includes(s, c) == \E x \in 1..Len(s) : s[x] = c

HasAt(s, p, lit) ==
    /\ p + Len(lit) - 1 <= Len(s)
    /\ \A x \in 1..Len(lit) : s[p + x - 1] = lit[x]

\* ------------------------------------------- content.match(/!\[.*?\]\((.*?)\)/)
\* positions where the literal lit starts
Occurrences(s, lit) == {p \in 1..Len(s) : HasAt(s, p, lit)}

\* every character of s[from..to] is matched by "."
AllDots(s, from, to) == \A x \in Occurrences(s, <<LF>>) : x < from \/ x > to

\* (p, q, r): "![" at p, "](" at q, ")" at r, no line terminator in between
MdTriple(s, p, q, r) ==
    /\ q >= p + 2
    /\ r >= q + 2
    /\ AllDots(s, p + 2, q - 1)
    /\ AllDots(s, q + 2, r - 1)

MdMatches(s) ==
    {t \in Occurrences(s, <<"!", "[">>) \X Occurrences(s, <<"]", "(">>)
           \X Occurrences(s, <<")">>) : MdTriple(s, t[1], t[2], t[3])}

\* leftmost start, then the lazy quantifiers take the shortest extensions
markdownMatch(s) ==
    LET ms == MdMatches(s)
    IN IF ms = {} THEN [found |-> FALSE, group |-> <<>>]
       ELSE LET p == MinOf({t[1] : t \in ms})
                q == MinOf({t[2] : t \in {u \in ms : u[1] = p}})
                r == MinOf({t[3] : t \in {u \in ms : u[1] = p /\ u[2] = q}})
            IN [found |-> TRUE, group |-> SubSeq(s, q + 2, r - 1)]

\* ------------------------------------------- content.match(/(https?:\/\/[^\s]+)/)
HttpLit == <<"h", "t", "t", "p", ":", "/", "/">>
HttpsLit == <<"h", "t", "t", "p", "s", ":", "/", "/">>

\* position of the first character after the scheme when a URL starts at p, else 0
UrlBodyAt(s, p) ==
    IF s[p] # "h" THEN 0
    ELSE IF HasAt(s, p, HttpsLit) /\ p + 8 <= Len(s) /\ ~IsWhitespace(s[p + 8]) THEN p + 8
    ELSE IF HasAt(s, p, HttpLit) /\ p + 7 <= Len(s) /\ ~IsWhitespace(s[p + 7]) THEN p + 7
    ELSE 0

UrlStarts(s) == {p \in 1..Len(s) : UrlBodyAt(s, p) # 0}

\* leftmost start, greedy [^\s]+ runs to the next whitespace or the end
urlMatch(s) ==
    IF UrlStarts(s) = {} THEN [found |-> FALSE, text |-> <<>>]
    ELSE LET p == MinOf(UrlStarts(s))
             stops == {x \in (p + 1)..Len(s) : IsWhitespace(s[x])}
             e == IF stops = {} THEN Len(s) ELSE MinOf(stops) - 1
         IN [found |-> TRUE, text |-> SubSeq(s, p, e)]

\* ------------------------------------------------------------------ atob
\* characters of the base64 alphabet among the characters in use
Base64Chars == {"A", "h", "t", "p", "s", "/"}

\* atob removes ASCII whitespace before decoding
StripAsciiWs(s) == SelectSeq(s, LAMBDA c : ~IsWhitespace(c))

\* atob throws on a character outside the alphabet or a length of 4n+1
atobOk(s) ==
    LET t == StripAsciiWs(s)
    IN /\ \A x \in 1..Len(t) : t[x] \in Base64Chars
       /\ Len(t) % 4 # 1

\* b64toBlob throws exactly when atob does
b64toBlobOk(s) == atobOk(s)

Base64MinLen == 100

\* the guard without its test for a space
LooksLikeBase64NoSpaceTest(s) == Len(s) > Base64MinLen

\* Strategy 3 guard: content.length > 100 && !content.includes(' ')
LooksLikeBase64(s) == Len(s) > Base64MinLen /\ ~Includes(s, SP)

SliceLen == 100

\* ----------------------------------------- generateSingleFrame after the reply
IdleFrame ==
    [st |-> "idle", strategy |-> 0, tried3 |-> FALSE, fetchErr |-> FALSE, url |-> <<>>,
     val |-> [kind |-> "none", url |-> <<>>, n |-> 0], err |-> "none", msg |-> <<>>]

\* the frame after the chat completion resolved with `content` (<<>> is a
\* missing or empty content); n identifies the createObjectURL call
OnReply(content, n) ==
    LET md == markdownMatch(content)
        um == urlMatch(content)
    IN IF content = <<>>
       THEN [IdleFrame EXCEPT !.st = "failed", !.err = "empty"]
       ELSE IF md.found /\ md.group # <<>>
       THEN [IdleFrame EXCEPT !.st = "fetch", !.strategy = 1, !.url = md.group]
       ELSE IF um.found /\ um.text # <<>>
       THEN [IdleFrame EXCEPT !.st = "fetch", !.strategy = 2, !.url = um.text]
       ELSE IF LooksLikeBase64(content) /\ b64toBlobOk(content)
       THEN [IdleFrame EXCEPT !.st = "ok", !.strategy = 3, !.tried3 = TRUE,
                              !.val = [kind |-> "blob", url |-> <<>>, n |-> n]]
       ELSE [IdleFrame EXCEPT !.st = "failed", !.err = "unparsable",
                              !.tried3 = LooksLikeBase64(content),
                              !.msg = Slice(content, 0, SliceLen)]

\* ------------------------------------------------- fetchAndCreateBlobUrl
\* `await fetch(url)` resolved: res.blob() is awaited next
fetchResolved(fr) == [fr EXCEPT !.st = "blob"]

\* `await res.blob()` resolved: URL.createObjectURL(blob) is returned
blobResolved(fr, n) ==
    [fr EXCEPT !.st = "ok", !.val = [kind |-> "blob", url |-> <<>>, n |-> n]]

\* the catch block rethrowing instead of returning the URL
fetchRethrown(fr) == [fr EXCEPT !.st = "failed", !.fetchErr = TRUE, !.err = "fetch"]

\* catch (e) { return url; } for a rejection of fetch or of res.blob()
fetchCaught(fr) ==
    [fr EXCEPT !.st = "ok", !.fetchErr = TRUE, !.val = [kind |-> "url", url |-> fr.url, n |-> 0]]

\* ---------------------------------------------------------------- replies
MdImgText == <<"!", "[", "A", "]", "(">> \o HttpLit \o <<"A", "A", ")">>
MdEmptyText == <<"!", "[", "]", "(", ")">>
UrlText == HttpLit \o <<"A">>
Run50 == Rep("A", 50)

\* building blocks of the replies the parser is checked on
Pieces ==
    {MdImgText, MdEmptyText, UrlText, HttpLit, Run50, <<"A">>, <<"A", "A">>,
     <<SP>>, <<LF>>}

RECURSIVE Contents(_)
Contents(n) ==
    IF n = 0 THEN {<<>>}
    ELSE Contents(n - 1) \cup {c \o p : c \in Contents(n - 1), p \in Pieces}

AllContents == Contents(MaxPieces)

\* replies the remote service gives in the batch runs: no content, a markdown
\* image, a bare URL, a base64 payload, plain text
RunReplies ==
    {<<>>, MdImgText, UrlText, Run50 \o Run50 \o <<"A", "A">>, <<"A">>}

\* ------------------------------------------------------------------ state
VARIABLES
    count,      \* the count argument
    apiKey,     \* process.env.API_KEY is set and non-empty
    aborted,    \* signal?.aborted
    abortedAt,  \* history: when the signal fired (see the constants below)
    pc,         \* position of generateAnimationFrames
    i,          \* outer loop variable
    j,          \* inner loop variable
    urls,       \* the accumulated results
    frames,     \* frames[k]: the call generateSingleFrame(..., k, count)
    delivered,  \* what the caller of generateAnimationFrames received
    timer,      \* delay of the pending setTimeout
    clock,      \* time elapsed since the current group passed its check
    calls,      \* history: the (index, total, time) of each generateSingleFrame call
    net,        \* history: number of chat-completion requests and of fetches sent
    outOfOrder, \* history: a frame settled while a lower index was in flight
    tokenReads, \* history: number of reads of signal?.aborted
    reply,      \* single-frame runs: the content of the reply
    out,        \* single-frame runs: the frame
    envKey,     \* process.env.API_KEY: "unset", "" or a key
    host,       \* the host environment (see Hosts)
    keyPc,      \* position of checkApiKey
    keyResult,  \* what the last checkApiKey resolved to
    answered,   \* history: the last outcome of window.aistudio.hasSelectedApiKey()
    checks,     \* history: number of completed checkApiKey calls
    alerts      \* history: number of alert() calls of promptApiKeySelection

runVars == <<count, apiKey, aborted, abortedAt, pc, i, j, urls, frames,
             delivered, timer, clock, calls, net, outOfOrder, tokenReads>>
frameVars == <<reply, out>>
keyVars == <<envKey, host, keyPc, keyResult, answered, checks, alerts>>
vars == <<count, apiKey, aborted, abortedAt, pc, i, j, urls, frames,
          delivered, timer, clock, calls, net, outOfOrder, tokenReads, reply, out,
          envKey, host, keyPc, keyResult, answered, checks, alerts>>

\* values of abortedAt that are not a group number
NeverAborted == 0 - 2
AbortedAtCall == 0 - 1
AbortedLate == 0 - 3

\* a batch one request wider
batchSizeFour == 3 + 1

\* const batchSize = 3
batchSize == 3

\* a stagger step twice as long
StaggerStepDouble == 100 + 100

\* setTimeout(r, 100 * (j - i))
StaggerStep == 100

FrameIds == 0..(MaxCount - 1)

NoDelivery == [kind |-> "none", v |-> <<>>, e |-> "none"]

\* an inner loop running one index too far
GroupEndWide(gi) == Min(gi + 3 + 1, count)

\* an inner loop stopping one index early
GroupEndShort(gi) == Min(gi + 3 - 1, count)

\* Math.min(i + batchSize, count)
GroupEnd(gi) == Min(gi + batchSize, count)

Group(gi) == gi..(GroupEnd(gi) - 1)

\* ------------------------------------------------------------- Promise.all
\* a join that swallows rejections: pending for ever once a promise rejects
PromiseAllNoReject(fs, gi) ==
    IF \A k \in gi..(Min(gi + 3, count) - 1) : fs[k].st = "ok"
    THEN [st |-> "fulfilled", err |-> "none",
          vals |-> [x \in 1..(Min(gi + 3, count) - gi) |-> fs[gi + x - 1].val]]
    ELSE [st |-> "pending", err |-> "none", vals |-> <<>>]

\* Promise.allSettled in place of Promise.all: never rejected
PromiseAllSettled(fs, gi) ==
    IF \A k \in gi..(Min(gi + 3, count) - 1) : fs[k].st \in {"ok", "failed"}
    THEN [st |-> "fulfilled", err |-> "none",
          vals |-> [x \in 1..(Min(gi + 3, count) - gi) |-> fs[gi + x - 1].val]]
    ELSE [st |-> "pending", err |-> "none", vals |-> <<>>]

\* Promise.any in place of Promise.all: fulfilled by the first fulfilment
PromiseAny(fs, gi) ==
    IF \E k \in gi..(Min(gi + 3, count) - 1) : fs[k].st = "ok"
    THEN [st |-> "fulfilled", err |-> "none",
          vals |-> [x \in 1..(Min(gi + 3, count) - gi) |-> fs[gi + x - 1].val]]
    ELSE [st |-> "pending", err |-> "none", vals |-> <<>>]

\* Promise.all over the promises of the group starting at gi: rejected with the
\* reason of the first rejection it sees (the lowest index among the promises
\* rejected when it looks), fulfilled with the values in index order once
\* every promise is fulfilled
PromiseAll(fs, gi) ==
    LET rej == {k \in Group(gi) : fs[k].st = "failed"}
    IN IF rej # {}
       THEN [st |-> "rejected", err |-> fs[MinOf(rej)].err, vals |-> <<>>]
       ELSE IF \A k \in Group(gi) : fs[k].st = "ok"
       THEN [st |-> "fulfilled", err |-> "none",
             vals |-> [x \in 1..(GroupEnd(gi) - gi) |-> fs[gi + x - 1].val]]
       ELSE [st |-> "pending", err |-> "none", vals |-> <<>>]

\* the loop without its check before a group
AbortedBeforeGroupSkipped == FALSE

\* if (signal?.aborted) at the head of the outer loop body
AbortedBeforeGroup == aborted

\* the loop without its check after the join
AbortedAfterJoinSkipped == FALSE

\* if (signal?.aborted) after the await of Promise.all
AbortedAfterJoin == aborted

\* urls.unshift(...batchResults)
PushResultsFront(us, batchResults) == batchResults \o us

\* urls.push(...batchResults)
PushResults(us, batchResults) == us \o batchResults

\* throw out of generateAnimationFrames
Throw(e) ==
    /\ pc' = "threw"
    /\ delivered' = [kind |-> "error", v |-> <<>>, e |-> e]
    /\ UNCHANGED <<timer, clock>>

\* the loop head with the cancellation check ahead of the loop test
LoopHeadCheckFirst(ni, us) ==
    /\ i' = ni
    /\ urls' = us
    /\ tokenReads' = tokenReads + 1
    /\ IF aborted
       THEN /\ pc' = "threw"
            /\ delivered' = [kind |-> "error", v |-> <<>>, e |-> "aborted"]
            /\ UNCHANGED <<j, timer, clock>>
       ELSE IF ni < count
       THEN /\ pc' = "timer"
            /\ j' = ni
            /\ timer' = 0
            /\ clock' = 0
            /\ delivered' = delivered
       ELSE /\ pc' = "returned"
            /\ delivered' = [kind |-> "value", v |-> us, e |-> "none"]
            /\ UNCHANGED <<j, timer, clock>>

\* the outer loop test and the body up to the first await of the inner loop,
\* entered with i = ni and urls = us
LoopHead(ni, us) ==
    /\ i' = ni
    /\ urls' = us
    /\ tokenReads' = tokenReads + (IF pc = "start" THEN 0 ELSE 1)
                                + (IF ni < count THEN 1 ELSE 0)
    /\ IF ni < count
       THEN IF AbortedBeforeGroup
            THEN Throw("aborted") /\ j' = j
            ELSE /\ pc' = "timer"
                 /\ j' = ni
                 /\ timer' = StaggerStep * (ni - ni)
                 /\ clock' = 0
                 /\ delivered' = delivered
       ELSE /\ pc' = "returned"
            /\ delivered' = [kind |-> "value", v |-> us, e |-> "none"]
            /\ UNCHANGED <<j, timer, clock>>

\* `await Promise.all(batchPromises)` and its continuation, given the frames fs
Join(fs) ==
    LET pa == PromiseAll(fs, i)
    IN IF pa.st = "rejected"
       THEN Throw(pa.err) /\ UNCHANGED <<i, j, urls, tokenReads>>
       ELSE IF pa.st = "fulfilled"
       THEN IF AbortedAfterJoin
            THEN /\ Throw("aborted")
                 /\ tokenReads' = tokenReads + 1
                 /\ UNCHANGED <<i, j, urls>>
            ELSE LoopHead(i + batchSize, PushResults(urls, pa.vals))
       ELSE /\ pc' = "join"
            /\ UNCHANGED <<i, j, urls, delivered, timer, clock, tokenReads>>

\* ------------------------------------------------------------- getAiClient
\* getAiClient without its test of the key
getAiClientNeverThrows == FALSE

\* getAiClient throws when process.env.API_KEY is missing or empty
getAiClientThrows == ~apiKey

\* generateSingleFrame up to its first await: the rejected promise of the
\* configuration error, or the chat-completion request in flight
generateSingleFrame ==
    IF getAiClientThrows
    THEN [IdleFrame EXCEPT !.st = "failed", !.err = "config"]
    ELSE [IdleFrame EXCEPT !.st = "chat"]

\* ------------------------------------------------------------------- Init
Init ==
    /\ count \in (0 - 1)..MaxCount
    /\ apiKey \in BOOLEAN
    /\ aborted \in BOOLEAN
    /\ abortedAt = IF aborted THEN AbortedAtCall ELSE NeverAborted
    /\ pc = "start"
    /\ i = 0
    /\ j = 0
    /\ urls = <<>>
    /\ frames = [k \in FrameIds |-> IdleFrame]
    /\ delivered = NoDelivery
    /\ timer = 0
    /\ clock = 0
    /\ calls = <<>>
    /\ net = [chat |-> 0, fetch |-> 0]
    /\ outOfOrder = FALSE
    /\ tokenReads = 0
    /\ reply = <<>>
    /\ out = IdleFrame
    /\ envKey = (IF apiKey THEN "sk" ELSE "unset")
    /\ host = "node"
    /\ keyPc = "idle"
    /\ keyResult = "none"
    /\ answered = "none"
    /\ checks = 0
    /\ alerts = 0

\* ---------------------------------------------------------------- actions
\* the call of generateAnimationFrames, up to its first await
Call ==
    /\ pc = "start"
    /\ LoopHead(0, <<>>)
    /\ UNCHANGED <<count, apiKey, aborted, abortedAt, frames, calls, net, outOfOrder>>
    /\ UNCHANGED frameVars
    /\ UNCHANGED keyVars

\* the stagger timer fires: generateSingleFrame(j) is called and pushed; the
\* inner loop arms the next timer or, at its end, Promise.all is awaited
TimerFires ==
    /\ pc = "timer"
    /\ LET fr == generateSingleFrame
           fs == [frames EXCEPT ![j] = fr]
           now == clock + timer
       IN /\ frames' = fs
          /\ calls' = Append(calls, [index |-> j, total |-> count, at |-> now])
          /\ net' = [net EXCEPT !.chat = IF fr.st = "chat" THEN @ + 1 ELSE @]
          /\ outOfOrder' = outOfOrder
          /\ IF j + 1 < GroupEnd(i)
             THEN /\ j' = j + 1
                  /\ timer' = StaggerStep * (j + 1 - i)
                  /\ clock' = now
                  /\ UNCHANGED <<pc, i, urls, delivered, tokenReads>>
             ELSE Join(fs)
    /\ UNCHANGED <<count, apiKey, aborted, abortedAt>>
    /\ UNCHANGED frameVars
    /\ UNCHANGED keyVars

\* frame k moves on to fr; a frame that settles while Promise.all is awaited
\* runs the continuation of the join in the same turn of the event loop
Settle(k, fr) ==
    /\ frames' = [frames EXCEPT ![k] = fr]
    /\ net' = [net EXCEPT !.fetch = IF fr.st = "fetch" THEN @ + 1 ELSE @]
    /\ outOfOrder' = (outOfOrder \/ (/\ fr.st \in {"ok", "failed"}
                                     /\ \E a \in FrameIds :
                                           a < k /\ frames[a].st \in {"chat", "fetch", "blob"}))
    /\ IF pc = "join" /\ k \in Group(i)
       THEN Join([frames EXCEPT ![k] = fr])
       ELSE UNCHANGED <<pc, i, j, urls, delivered, timer, clock, tokenReads>>
    /\ UNCHANGED <<count, apiKey, aborted, abortedAt, calls>>
    /\ UNCHANGED frameVars
    /\ UNCHANGED keyVars

\* openai.chat.completions.create resolves with a reply
ChatReply(k) ==
    /\ frames[k].st = "chat"
    /\ \E content \in RunReplies : Settle(k, OnReply(content, k))

\* openai.chat.completions.create rejects; catch (error) { throw error; }
ChatFails(k) ==
    /\ frames[k].st = "chat"
    /\ Settle(k, [IdleFrame EXCEPT !.st = "failed", !.err = "api"])

FetchResolves(k) ==
    /\ frames[k].st = "fetch"
    /\ Settle(k, fetchResolved(frames[k]))

FetchRejects(k) ==
    /\ frames[k].st = "fetch"
    /\ Settle(k, fetchCaught(frames[k]))

BlobResolves(k) ==
    /\ frames[k].st = "blob"
    /\ Settle(k, blobResolved(frames[k], k))

BlobRejects(k) ==
    /\ frames[k].st = "blob"
    /\ Settle(k, fetchCaught(frames[k]))

\* the owner of the AbortController aborts the signal
Abort ==
    /\ ~aborted
    /\ aborted' = TRUE
    /\ abortedAt' = IF pc = "start" THEN AbortedAtCall
                    ELSE IF pc \in {"timer", "join"} THEN i \div batchSize
                    ELSE AbortedLate
    /\ UNCHANGED <<count, apiKey, pc, i, j, urls, frames, delivered, timer,
                   clock, calls, net, outOfOrder, tokenReads>>
    /\ UNCHANGED frameVars
    /\ UNCHANGED keyVars

Next ==
    \/ Call
    \/ TimerFires
    \/ \E k \in FrameIds : ChatReply(k)
    \/ \E k \in FrameIds : ChatFails(k)
    \/ \E k \in FrameIds : FetchResolves(k)
    \/ \E k \in FrameIds : FetchRejects(k)
    \/ \E k \in FrameIds : BlobResolves(k)
    \/ \E k \in FrameIds : BlobRejects(k)
    \/ Abort

Spec == Init /\ [][Next]_vars

\* every issued chat completion, fetch and timer eventually completes
Fairness ==
    /\ WF_vars(Call)
    /\ WF_vars(TimerFires)
    /\ \A k \in FrameIds :
          /\ WF_vars(ChatReply(k) \/ ChatFails(k))
          /\ WF_vars(FetchResolves(k) \/ FetchRejects(k))
          /\ WF_vars(BlobResolves(k) \/ BlobRejects(k))

SpecFair == Init /\ [][Next]_vars /\ Fairness

\* ------------------------------------------ one call of generateSingleFrame
\* a single frame request whose chat completion is in flight, for every reply
InitFrame ==
    /\ count = 1
    /\ apiKey = TRUE
    /\ aborted = FALSE
    /\ abortedAt = NeverAborted
    /\ pc = "start"
    /\ i = 0
    /\ j = 0
    /\ urls = <<>>
    /\ frames = [k \in FrameIds |-> IdleFrame]
    /\ delivered = NoDelivery
    /\ timer = 0
    /\ clock = 0
    /\ calls = <<>>
    /\ net = [chat |-> 1, fetch |-> 0]
    /\ outOfOrder = FALSE
    /\ tokenReads = 0
    /\ reply \in AllContents
    /\ out = generateSingleFrame
    /\ envKey = "sk"
    /\ host = "node"
    /\ keyPc = "idle"
    /\ keyResult = "none"
    /\ answered = "none"
    /\ checks = 0
    /\ alerts = 0

FrameStep(fr) ==
    /\ out' = fr
    /\ net' = [net EXCEPT !.fetch = IF fr.st = "fetch" THEN @ + 1 ELSE @]
    /\ UNCHANGED <<count, apiKey, aborted, abortedAt, pc, i, j, urls, frames,
                   delivered, timer, clock, calls, outOfOrder, tokenReads, reply>>
    /\ UNCHANGED keyVars

FrameReply == out.st = "chat" /\ FrameStep(OnReply(reply, 0))

FrameFetchResolves == out.st = "fetch" /\ FrameStep(fetchResolved(out))

FrameFetchRejects == out.st = "fetch" /\ FrameStep(fetchCaught(out))

FrameBlobResolves == out.st = "blob" /\ FrameStep(blobResolved(out, 0))

FrameBlobRejects == out.st = "blob" /\ FrameStep(fetchCaught(out))

NextFrame ==
    \/ FrameReply
    \/ FrameFetchResolves
    \/ FrameFetchRejects
    \/ FrameBlobResolves
    \/ FrameBlobRejects

SpecFrame == InitFrame /\ [][NextFrame]_vars

\* ------------------------------------------ checkApiKey, promptApiKeySelection
\* the host environments: no window object, a window without aistudio, an
\* aistudio object without hasSelectedApiKey, an aistudio object with it
Hosts == {"node", "browser", "aistudioBare", "aistudio"}

EnvKeys == {"unset", "", "sk"}

\* the test treating an empty key as a key
KeyPresentIfSet(k) == k # "unset"

\* process.env.API_KEY && process.env.API_KEY.length > 0 (and !process.env.API_KEY)
KeyPresent(k) == k # "unset" /\ k # ""

\* typeof window !== 'undefined' && window.aistudio && window.aistudio.hasSelectedApiKey
HasLegacyCheck(h) == h = "aistudio"

InitKey ==
    /\ count = 0
    /\ envKey \in EnvKeys
    /\ apiKey = KeyPresent(envKey)
    /\ aborted = FALSE
    /\ abortedAt = NeverAborted
    /\ pc = "start"
    /\ i = 0
    /\ j = 0
    /\ urls = <<>>
    /\ frames = [k \in FrameIds |-> IdleFrame]
    /\ delivered = NoDelivery
    /\ timer = 0
    /\ clock = 0
    /\ calls = <<>>
    /\ net = [chat |-> 0, fetch |-> 0]
    /\ outOfOrder = FALSE
    /\ tokenReads = 0
    /\ reply = <<>>
    /\ out = IdleFrame
    /\ host \in Hosts
    /\ keyPc = "idle"
    /\ keyResult = "none"
    /\ answered = "none"
    /\ checks = 0
    /\ alerts = 0

\* checkApiKey resolves to r
KeyResolve(r) ==
    /\ keyPc' = "idle"
    /\ keyResult' = r
    /\ checks' = checks + 1

\* the call of checkApiKey up to its await; hasSelectedApiKey() may throw at once
CheckApiKey ==
    /\ keyPc = "idle"
    /\ checks < MaxChecks
    /\ IF KeyPresent(envKey)
       THEN KeyResolve("true") /\ answered' = "none"
       ELSE IF HasLegacyCheck(host)
       THEN \/ /\ keyPc' = "awaiting"
               /\ UNCHANGED <<keyResult, answered, checks>>
            \/ KeyResolve("false") /\ answered' = "threw"
       ELSE KeyResolve("false") /\ answered' = "none"
    /\ UNCHANGED <<envKey, host, alerts>>
    /\ UNCHANGED runVars
    /\ UNCHANGED frameVars

\* window.aistudio.hasSelectedApiKey() resolves
HasSelectedResolves ==
    /\ keyPc = "awaiting"
    /\ \E b \in {"true", "false"} : KeyResolve(b) /\ answered' = b
    /\ UNCHANGED <<envKey, host, alerts>>
    /\ UNCHANGED runVars
    /\ UNCHANGED frameVars

\* window.aistudio.hasSelectedApiKey() rejects; catch (e) { return false; }
HasSelectedRejects ==
    /\ keyPc = "awaiting"
    /\ KeyResolve("false")
    /\ answered' = "rejected"
    /\ UNCHANGED <<envKey, host, alerts>>
    /\ UNCHANGED runVars
    /\ UNCHANGED frameVars

\* promptApiKeySelection: returns at once with a key, else warns and alerts
PromptApiKeySelection ==
    /\ alerts < MaxPrompts
    /\ alerts' = IF envKey # "unset" /\ envKey # "" THEN alerts ELSE alerts + 1
    /\ UNCHANGED <<envKey, host, keyPc, keyResult, answered, checks>>
    /\ UNCHANGED runVars
    /\ UNCHANGED frameVars

NextKey ==
    \/ CheckApiKey
    \/ HasSelectedResolves
    \/ HasSelectedRejects
    \/ PromptApiKeySelection

SpecKey == InitKey /\ [][NextKey]_vars

\* ================================================================ properties
Terminal == pc \in {"returned", "threw"}

InFlight(k) == frames[k].st \in {"chat", "fetch", "blob"}

Failed(k) == frames[k].st = "failed"

CallIndexes == {calls[x].index : x \in 1..Len(calls)}

ErrorDelivered(e) == delivered = [kind |-> "error", v |-> <<>>, e |-> e]

\* the group a frame index belongs to, with the batch width of the claims
GroupOf(k) == k \div 3

\* C1: for count N >= 1 a run that returns successfully returns exactly N
\* results, and the result at position k is the result of the frame request
\* issued with index k, whatever order the requests of a group completed in.
C1_ResultsInIndexOrder ==
    (count >= 1 /\ delivered.kind = "value") =>
        /\ Len(delivered.v) = count
        /\ \A k \in 0..(count - 1) :
              /\ k \in CallIndexes
              /\ frames[k].st = "ok"
              /\ delivered.v[k + 1] = frames[k].val

\* a run of two groups that returned although a group completed out of order
C1_Witness ==
    /\ delivered.kind = "value"
    /\ count = 4
    /\ outOfOrder

\* C2 as stated: a token already aborted at the call yields zero frame requests
\* and the cancellation error.
C2_AbortedAtCallThrows ==
    (abortedAt = AbortedAtCall /\ pc # "start") =>
        (calls = <<>> /\ ErrorDelivered("aborted"))

\* C2 amended: with count >= 1, a token already aborted at the call yields zero
\* frame requests and the cancellation error.
C2_AbortedAtCallThrowsWhenCountPositive ==
    (abortedAt = AbortedAtCall /\ pc # "start" /\ count >= 1) =>
        (calls = <<>> /\ net.chat = 0 /\ ErrorDelivered("aborted"))

C2_Witness == abortedAt = AbortedAtCall /\ count >= 1 /\ pc = "threw"

\* C3: if the token becomes aborted while group g is in progress and every
\* request of group g succeeds, the run ends in the cancellation error, no
\* request of a later group is ever issued and the caller receives no sequence.
C3_AbortBetweenGroups ==
    \A g \in 0..MaxCount :
        (/\ abortedAt = g
         /\ 3 * g < count
         /\ \A k \in 0..(count - 1) : GroupOf(k) = g => frames[k].st = "ok") =>
            /\ ErrorDelivered("aborted")
            /\ delivered.kind # "value"
            /\ \A k \in CallIndexes : GroupOf(k) <= g

\* group 0 of a run of two groups succeeded under an abort
C3_Witness ==
    /\ abortedAt = 0
    /\ count = 4
    /\ \A k \in 0..2 : frames[k].st = "ok"
    /\ pc = "threw"

\* C4: fail-fast. Once a frame request has failed no request of a later group
\* is issued, and the run ends with the error of a failed frame and delivers
\* no sequence, the results of earlier groups included.
C4_FailFast ==
    /\ \A k \in FrameIds : Failed(k) => \A c \in CallIndexes : GroupOf(c) <= GroupOf(k)
    /\ (Terminal /\ \E k \in FrameIds : Failed(k)) =>
          /\ delivered.kind = "error"
          /\ delivered.v = <<>>
          /\ \E k \in FrameIds : Failed(k) /\ delivered.e = frames[k].err

\* the second group failed on an unparsable reply after the first completed
C4_Witness ==
    /\ pc = "threw"
    /\ count = 4
    /\ Len(urls) = 3
    /\ Failed(3)
    /\ delivered.e = "unparsable"

\* C5 as stated: with the credential missing every call fails with the
\* configuration error and nothing is sent.
C5_MissingKeyAlwaysConfigError ==
    /\ ~apiKey => (net.chat = 0 /\ net.fetch = 0)
    /\ (~apiKey /\ Terminal) => ErrorDelivered("config")

\* C5 amended: with the credential missing nothing is ever sent, and a call
\* with count >= 1 whose token is not aborted at the call fails with the
\* configuration error.
C5_MissingKeyNoNetwork ==
    /\ ~apiKey =>
          /\ net.chat = 0
          /\ net.fetch = 0
          /\ \A k \in FrameIds : ~InFlight(k)
    /\ (~apiKey /\ Terminal /\ count >= 1 /\ abortedAt # AbortedAtCall) =>
          ErrorDelivered("config")

\* a full group was called without a key and the run failed
C5_Witness ==
    /\ ~apiKey
    /\ Len(calls) = 3
    /\ ErrorDelivered("config")

\* C6: a request of a later group is issued only when every request of every
\* earlier group has completed; requests of two groups are never in flight
\* together.
C6_StrictGroupSequencing ==
    /\ \A c \in CallIndexes : \A a \in 0..(count - 1) :
          GroupOf(a) < GroupOf(c) => frames[a].st = "ok"
    /\ \A a \in FrameIds, b \in FrameIds :
          (InFlight(a) /\ InFlight(b)) => GroupOf(a) = GroupOf(b)

C6_Witness == \E k \in FrameIds : GroupOf(k) = 1 /\ InFlight(k)

\* the requests issued so far in group g
CallsOfGroup(g) == {k \in CallIndexes : GroupOf(k) = g}

\* every request of group g has been issued
GroupIssued(g) == i > 3 * g \/ (i = 3 * g /\ pc = "join")

\* C7: at most 3 frame requests are in flight, and group g holds at most 3
\* requests, exactly min(3, count - 3g) once it is issued.
C7_ConcurrencyCap ==
    /\ Cardinality({k \in FrameIds : InFlight(k)}) <= 3
    /\ \A g \in 0..MaxCount :
          /\ Cardinality(CallsOfGroup(g)) <= 3
          /\ 3 * g >= count => CallsOfGroup(g) = {}
          /\ (3 * g < count /\ GroupIssued(g)) =>
                Cardinality(CallsOfGroup(g)) = Min(3, count - 3 * g)

\* a full group in flight, and a last group of one request
C7_Witness ==
    \/ Cardinality({k \in FrameIds : InFlight(k)}) = 3
    \/ (count = 4 /\ pc = "join" /\ i = 3)

\* C8: when the fetch of a matched URL fails the frame resolves to the matched
\* URL unchanged, so the frame, its group and the run can still succeed.
C8_FetchFailureFallsBack ==
    \A k \in FrameIds :
        frames[k].fetchErr =>
            /\ frames[k].st = "ok"
            /\ frames[k].val.kind = "url"
            /\ frames[k].val.url = frames[k].url
            /\ frames[k].strategy = 1 => frames[k].val.url = HttpLit \o <<"A", "A">>
            /\ frames[k].strategy = 2 => frames[k].val.url = HttpLit \o <<"A">>
            /\ frames[k].strategy \in {1, 2}

\* a run returned a sequence that holds the URL of a failed fetch
C8_Witness ==
    /\ delivered.kind = "value"
    /\ \E k \in 0..(count - 1) :
          frames[k].fetchErr /\ delivered.v[k + 1].kind = "url"

\* the reply holds ![alt](target) on one line with a non-empty target
ContainsMarkdownImage(s) ==
    \E p \in Occurrences(s, <<"!", "[">>), q \in Occurrences(s, <<"]", "(">>),
       r \in Occurrences(s, <<")">>) :
        /\ p + 2 <= q
        /\ q + 2 < r
        /\ \A x \in (p + 2)..(r - 1) : s[x] # LF
        /\ \A x \in (q + 2)..(r - 1) : s[x] # ")"

\* the reply holds http:// or https:// followed by a non-whitespace character
ContainsUrl(s) ==
    \E p \in 1..Len(s) : \E lit \in {HttpLit, HttpsLit} :
        /\ HasAt(s, p, lit)
        /\ p + Len(lit) <= Len(s)
        /\ s[p + Len(lit)] \notin {SP, LF}

\* the reply holds n consecutive characters none of which is whitespace
HasWhitespaceFreeRun(s, n) ==
    \E a \in 1..(Len(s) - n + 1) :
        \A x \in Occurrences(s, <<SP>>) \cup Occurrences(s, <<LF>>) :
            x < a \/ x > a + n - 1

Parsed == out.st \notin {"idle", "chat"}

\* C9: the strategies apply in a fixed order: a markdown image is taken in
\* preference to a bare URL, a bare URL in preference to base64 decoding, and
\* base64 decoding is attempted only when neither matched.
C9_StrategyOrder ==
    (Parsed /\ reply # <<>>) =>
        /\ ContainsMarkdownImage(reply) => out.strategy = 1
        /\ (~ContainsMarkdownImage(reply) /\ ContainsUrl(reply)) => out.strategy = 2
        /\ out.tried3 => (~ContainsMarkdownImage(reply) /\ ~ContainsUrl(reply))

\* C10 as stated: a non-empty reply with no markdown image, no URL and no
\* whitespace-free run of at least 100 characters fails with the unparsable-
\* reply error holding its first 100 characters; nothing is fetched or created.
C10_NoLongRunUnparsable ==
    (/\ Parsed
     /\ reply # <<>>
     /\ ~ContainsMarkdownImage(reply)
     /\ ~ContainsUrl(reply)
     /\ ~HasWhitespaceFreeRun(reply, 100)) =>
        /\ out.st = "failed"
        /\ out.err = "unparsable"
        /\ out.msg = SubSeq(reply, 1, IF Len(reply) < 100 THEN Len(reply) ELSE 100)
        /\ net.fetch = 0
        /\ out.val.kind = "none"

\* the reply decodes as base64 once its ASCII whitespace is removed
DecodesAsBase64(s) ==
    LET body == {x \in 1..Len(s) : s[x] \notin {SP, LF}}
    IN /\ \A x \in body : s[x] \in {"A", "h", "t", "p", "s", "/"}
       /\ Cardinality(body) % 4 # 1

\* C10 amended: a non-empty reply with no markdown image and no URL that is at
\* most 100 characters long, or holds a space, or does not decode as base64,
\* fails with the unparsable-reply error holding its first 100 characters;
\* nothing is fetched or created.
C10_NotBase64Unparsable ==
    (/\ Parsed
     /\ reply # <<>>
     /\ ~ContainsMarkdownImage(reply)
     /\ ~ContainsUrl(reply)
     /\ (Len(reply) <= 100 \/ Includes(reply, SP) \/ ~DecodesAsBase64(reply))) =>
        /\ out.st = "failed"
        /\ out.err = "unparsable"
        /\ out.msg = SubSeq(reply, 1, IF Len(reply) < 100 THEN Len(reply) ELSE 100)
        /\ net.fetch = 0
        /\ out.val.kind = "none"

\* a reply longer than 100 characters with a space was rejected with its prefix
C10_Witness ==
    /\ out.st = "failed"
    /\ out.err = "unparsable"
    /\ Len(reply) > 100
    /\ Includes(reply, SP)
    /\ Len(out.msg) = 100

KeyMissing == envKey \in {"unset", ""}

\* C11 as stated: with the credential missing checkApiKey resolves to false in
\* every host environment, and to true whenever a non-empty API_KEY is present.
C11_MissingKeyResolvesFalse ==
    keyResult # "none" =>
        /\ KeyMissing => keyResult = "false"
        /\ ~KeyMissing => keyResult = "true"

\* C11 amended: checkApiKey resolves to true whenever a non-empty API_KEY is
\* present; with the credential missing it resolves to false in a host without
\* window.aistudio.hasSelectedApiKey, and otherwise to what that function
\* answers (false when it throws or rejects).
C11_MissingKeyAsksHost ==
    keyResult # "none" =>
        /\ ~KeyMissing => keyResult = "true"
        /\ (KeyMissing /\ host # "aistudio") => keyResult = "false"
        /\ (KeyMissing /\ host = "aistudio") =>
              /\ answered # "none"
              /\ keyResult = (IF answered = "true" THEN "true" ELSE "false")

\* checkApiKey resolved to false without a key, on a host without aistudio and
\* on one whose hasSelectedApiKey answered
C11_Witness ==
    /\ KeyMissing
    /\ keyResult = "false"
    /\ \/ host = "browser"
       \/ host = "aistudio" /\ answered = "false"

\* C12 as stated: the run never leaves the join while a request of the group
\* is in flight, so a terminated run has no request in flight.
C12_JoinWaitsForAll == Terminal => \A k \in FrameIds : ~InFlight(k)

\* C12 amended: the run leaves the join to re-check cancellation or to append
\* results only when no request of the group is in flight, so a run that
\* returned a sequence or failed with the cancellation error has no request in
\* flight; a run that failed with a frame's error may have.
C12_JoinWaitsUnlessRejected ==
    /\ (delivered.kind = "value" \/ ErrorDelivered("aborted")) =>
          \A k \in FrameIds : ~InFlight(k)
    /\ \A k \in 0..(count - 1) : k < i => frames[k].st = "ok"
    /\ (Terminal /\ \E k \in FrameIds : InFlight(k)) =>
          \E f \in FrameIds : Failed(f) /\ GroupOf(f) = GroupOf(i)

\* a run of two groups ended in the cancellation error after its second join
C12_Witness ==
    /\ ErrorDelivered("aborted")
    /\ abortedAt = 1
    /\ \A k \in 0..3 : frames[k].st = "ok"

\* C13: the token is read, and the cancellation error raised, only when no
\* request of the run is in flight.
C13_CancellationAtBoundaries ==
    /\ [][tokenReads' # tokenReads => \A k \in FrameIds : ~InFlight(k)']_vars
    /\ [](ErrorDelivered("aborted") => \A k \in FrameIds : ~InFlight(k))

\* the token was aborted during group 0 and read again after its join
C13_Witness ==
    /\ abortedAt = 0
    /\ tokenReads = 2
    /\ ErrorDelivered("aborted")
    /\ Len(calls) = 3

\* position of a frame index in its group
PositionOf(k) == k % 3

\* C14 as stated: the request at position p is issued 100 * p time units after
\* the group starts, consecutive requests 100 time units apart.
C14_StaggerLinear ==
    \A x \in 1..Len(calls) : calls[x].at = 100 * PositionOf(calls[x].index)

\* C14 amended: the request at position p is issued 100 * p time units after
\* the previous request of the group, that is 0, 100 and 300 time units after
\* the group starts.
C14_StaggerCumulative ==
    /\ \A x \in 1..Len(calls) :
          calls[x].at = (IF PositionOf(calls[x].index) = 0 THEN 0
                         ELSE IF PositionOf(calls[x].index) = 1 THEN 100 ELSE 300)
    /\ \A x \in 1..Len(calls), y \in 1..Len(calls) :
          (y = x + 1 /\ GroupOf(calls[x].index) = GroupOf(calls[y].index)) =>
              calls[y].at - calls[x].at = 100 * PositionOf(calls[y].index)

\* the third request of a group was issued
C14_Witness == \E x \in 1..Len(calls) : PositionOf(calls[x].index) = 2

\* C15: a run of at least one group returns a sequence only if the token was
\* not aborted when the final join completed.
C15_RecheckAfterLastJoin ==
    (count >= 1 /\ delivered.kind = "value") =>
        /\ abortedAt \in {NeverAborted, AbortedLate}
        /\ tokenReads >= 2

\* all frames of a run of two groups were generated, the token was aborted
\* during the last group and the run ended in the cancellation error
C15_Witness ==
    /\ count = 4
    /\ abortedAt = 1
    /\ \A k \in 0..3 : frames[k].st = "ok"
    /\ ErrorDelivered("aborted")
    /\ Len(urls) = 3

\* C16: each index in 0..N-1 is requested at most once, in increasing order,
\* with total = N, by at most one chat request each, and a run that returns
\* has issued exactly N requests.
C16_SingleExchangePerFrame ==
    /\ \A x \in 1..Len(calls) :
          /\ calls[x].index \in 0..(count - 1)
          /\ calls[x].total = count
          /\ \A y \in 1..Len(calls) : x < y => calls[x].index < calls[y].index
    /\ net.chat <= Len(calls)
    /\ (delivered.kind = "value" /\ count >= 0) => Len(calls) = count

\* a frame of the second group failed and the run ended
C16_Witness ==
    /\ count = 4
    /\ Len(calls) = 4
    /\ Failed(3)
    /\ pc = "threw"

\* C17: once a group has passed its check all its requests are issued: while
\* the stagger runs the requests issued are the first positions of the group,
\* whether or not one failed or the token was aborted, and the stagger is only
\* left with the whole group issued.
C17_WholeGroupIssued ==
    /\ pc = "timer" => CallsOfGroup(GroupOf(i)) = {k \in 0..(count - 1) : i <= k /\ k < j}
    /\ pc # "timer" =>
          \A g \in 0..MaxCount :
              \/ CallsOfGroup(g) = {}
              \/ Cardinality(CallsOfGroup(g)) = Min(3, count - 3 * g)
    /\ (pc \in {"join", "returned"} \/ (pc = "threw" /\ ~ErrorDelivered("aborted"))) =>
          \A g \in 0..MaxCount : (3 * g < count /\ 3 * g <= i) =>
              Cardinality(CallsOfGroup(g)) = Min(3, count - 3 * g)

\* without a key the first request failed at its call, the token was aborted
\* during the stagger, and the whole group was issued all the same
C17_Witness ==
    /\ ~apiKey
    /\ abortedAt = 0
    /\ Failed(0)
    /\ Len(calls) = 3

\* C18: with count <= 0 the run issues no request and returns the empty
\* sequence, whatever the token and the credential.
C18_NonPositiveCountReturnsEmpty ==
    (count <= 0 /\ pc # "start") =>
        /\ delivered = [kind |-> "value", v |-> <<>>, e |-> "none"]
        /\ calls = <<>>
        /\ net.chat = 0
        /\ net.fetch = 0

\* a run with count 0, an aborted token and no key returned
C18_Witness ==
    /\ count = 0
    /\ abortedAt = AbortedAtCall
    /\ ~apiKey
    /\ pc = "returned"

\* the groups that have issued a request
GroupsStarted == {GroupOf(k) : k \in CallIndexes}

\* C19: when every chat completion, fetch and timer eventually completes the
\* run terminates, returning a sequence or raising one error once; it issues at
\* most count requests and starts at most ceil(count / 3) groups.
C19_Terminates ==
    /\ <>Terminal
    /\ [](Terminal => delivered.kind \in {"value", "error"})
    /\ [](~Terminal => delivered = NoDelivery)
    /\ [][delivered # NoDelivery => delivered' = delivered]_vars
    /\ [](Len(calls) <= (IF count > 0 THEN count ELSE 0))
    /\ [](Cardinality(GroupsStarted) <= (IF count > 0 THEN (count + 2) \div 3 ELSE 0))

\* a run of two groups terminated with every request issued
C19_Witness ==
    /\ Terminal
    /\ count = 4
    /\ Len(calls) = 4
====
